---- MODULE Spec2Model ----
(***************************************************************************)
(* BGP Prefix-SID attribute decoder (Server/src/bgp/BGPPrefixSID.cpp).     *)
(*                                                                         *)
(* parseBGPPrefixSIDAttr walks the TLVs of the attribute, and              *)
(* parseSRv6L3ServiceTLV walks the sub-TLVs of an SRv6 L3 Service TLV and, *)
(* inline, the sub-sub-TLVs of an SRv6 SID Information sub-TLV.  The three  *)
(* loops are modelled one iteration per action.  Cursors (u_char ptrs) are *)
(* byte offsets from the start of the attribute buffer.  A read at an      *)
(* offset outside the buffer yields whatever lies behind it in memory,     *)
(* which the initial state fixes as an arbitrary byte.                     *)
(* The host is little-endian (x86-64 / aarch64 builds of the collector).   *)
(***************************************************************************)
EXTENDS Integers, Sequences, FiniteSets, TLC

-----------------------------------------------------------------------------
(* Small arithmetic helpers                                                *)

Max(a, b) == IF a >= b THEN a ELSE b

\* F applied to the value of e, with e evaluated once
With(e, F(_)) == CHOOSE r \in { F(x) : x \in {e} } : TRUE

-----------------------------------------------------------------------------
(* Faulty variants of definitions below; each property that names one is   *)
(* violated when the variant takes the place of the original.              *)

\* readData without the byte swap
Keep(q) == q

\* A top-level loop that needs room for a whole header
TopLoopCondHeader(len) == len > 3

\* No sibling bound at all
NeverTooMuch(cnt) == FALSE

\* A sibling bound one higher
TooMuchLoopLate(cnt) == cnt > 4

\* A uint16_t field read as a signed 16-bit value
U16Signed(f) ==
    IF f[1] + 256 * f[2] >= 32768 THEN f[1] + 256 * f[2] - 65536 ELSE f[1] + 256 * f[2]

\* A budget charged for one byte more than the cursor moves
TlvSizeOneMore(len) == len + 4

\* A cursor advance that forgets the reserved byte of the header
ValueSkipWhole(len) == len

-----------------------------------------------------------------------------
(* boost::property_tree::ptree: a node holds a data string and an ordered  *)
(* list of (key, child) pairs.                                             *)

EmptyTree == [data |-> "", kids |-> <<>>]

Leaf(v) == [data |-> v, kids |-> <<>>]

\* ptree::add_child(key, child): always appends a new child.
AddChild(t, key, child) == [t EXCEPT !.kids = Append(@, [key |-> key, node |-> child])]

HasKey(t, key) == \E i \in 1..Len(t.kids) : t.kids[i].key = key

FirstIdx(t, key) == CHOOSE i \in 1..Len(t.kids) :
                        /\ t.kids[i].key = key
                        /\ \A j \in 1..(i-1) : t.kids[j].key # key

\* ptree::put(key, value): sets the data of the first child named key, or
\* appends a new leaf when there is none.
Put(t, key, v) ==
    With(t, LAMBDA x : IF HasKey(x, key)
                       THEN [x EXCEPT !.kids[FirstIdx(x, key)].node.data = v]
                       ELSE AddChild(x, key, Leaf(v)))

\* The children of t named key, in order.
Children(t, key) == SelectSeq(t.kids, LAMBDA k : k.key = key)

Keys(t) == [i \in 1..Len(t.kids) |-> t.kids[i].key]

-----------------------------------------------------------------------------
(* Text conversions used when values are put into the tree                 *)

DecDigits == <<"0", "1", "2", "3", "4", "5", "6", "7", "8", "9">>

HexDigits == <<"0", "1", "2", "3", "4", "5", "6", "7", "8", "9",
               "a", "b", "c", "d", "e", "f">>

RECURSIVE ToDec(_)
\* ptree::put of an unsigned integer: its decimal text (for uint8_t the
\* stream translator inserts the number, not the character).
ToDec(n) == IF n < 10 THEN DecDigits[n + 1]
            ELSE ToDec(n \div 10) \o DecDigits[(n % 10) + 1]

RECURSIVE ToHex(_)
\* sprintf("%x", w)
ToHex(n) == IF n < 16 THEN HexDigits[n + 1]
            ELSE ToHex(n \div 16) \o HexDigits[(n % 16) + 1]

\* inet_ntop4: dotted decimal of four bytes
Ntop4(b) == ToDec(b[1]) \o "." \o ToDec(b[2]) \o "." \o ToDec(b[3]) \o "." \o ToDec(b[4])

\* The eight 16-bit words of a 16-byte address, network order.
Words(sid) ==
    <<sid[1] * 256 + sid[2],   sid[3] * 256 + sid[4],   sid[5] * 256 + sid[6],
      sid[7] * 256 + sid[8],   sid[9] * 256 + sid[10],  sid[11] * 256 + sid[12],
      sid[13] * 256 + sid[14], sid[15] * 256 + sid[16]>>

\* Length of the run of zero words starting at word i (1-based).
RECURSIVE ZeroRun(_, _)
ZeroRun(w, i) == IF i > 8 \/ w[i] # 0 THEN 0 ELSE 1 + ZeroRun(w, i + 1)

\* inet_ntop's best run: the first longest run of zero words, of length >= 2;
\* base 0 when there is none.
BestRun(w) ==
    With(<<ZeroRun(w, 1), ZeroRun(w, 2), ZeroRun(w, 3), ZeroRun(w, 4),
           ZeroRun(w, 5), ZeroRun(w, 6), ZeroRun(w, 7), ZeroRun(w, 8)>>,
         LAMBDA len :
            With(CHOOSE i \in 1..8 :
                    /\ \A j \in 1..8 : len[j] <= len[i]
                    /\ \A j \in 1..(i-1) : len[j] < len[i],
                 LAMBDA best : IF len[best] >= 2
                               THEN [base |-> best, len |-> len[best]]
                               ELSE [base |-> 0, len |-> 0]))

RECURSIVE NtopFrom(_, _, _, _)
\* The formatting loop of inet_ntop(AF_INET6, ...) from word i on.
NtopFrom(sid, w, best, i) ==
    IF i > 8
    THEN (IF best.base # 0 /\ best.base + best.len = 9 THEN ":" ELSE "")
    ELSE IF best.base # 0 /\ i >= best.base /\ i < best.base + best.len
    THEN (IF i = best.base THEN ":" ELSE "") \o NtopFrom(sid, w, best, i + 1)
    ELSE (IF i # 1 THEN ":" ELSE "") \o
         (IF i = 7 /\ best.base = 1 /\
             (best.len = 6 \/ (best.len = 5 /\ w[6] = 65535))
          THEN Ntop4(SubSeq(sid, 13, 16))
          ELSE ToHex(w[i]) \o NtopFrom(sid, w, best, i + 1))

\* inet_ntop(AF_INET6, sid, ...): text form of the 16 bytes.
InetNtop(sid) ==
    With(sid, LAMBDA v :
        With(Words(v), LAMBDA w :
            With(BestRun(w), LAMBDA best : NtopFrom(v, w, best, 1))))

-----------------------------------------------------------------------------
(* BGPPrefixSID.h: endpoint_behavior_codepoint_to_name                     *)

\* The explicit cases of the switch: code -> name.
BehaviorTable ==
       (0 :> "Reserved")
    @@ (1 :> "End")
    @@ (2 :> "End with PSP")
    @@ (3 :> "End with USP")
    @@ (4 :> "End with PSP & USP")
    @@ (5 :> "End.X")
    @@ (6 :> "End.X with PSP")
    @@ (7 :> "End.X with USP")
    @@ (8 :> "End.X with PSP & USP")
    @@ (9 :> "End.T")
    @@ (10 :> "End.T with PSP")
    @@ (11 :> "End.T with USP")
    @@ (12 :> "End.T with PSP & USP")
    @@ (13 :> "End.B6.Insert")
    @@ (14 :> "End.B6.Encaps")
    @@ (15 :> "End.BM")
    @@ (16 :> "End.DX6")
    @@ (17 :> "End.DX4")
    @@ (18 :> "End.DT6")
    @@ (19 :> "End.DT4")
    @@ (20 :> "End.DT46")
    @@ (21 :> "End.DX2")
    @@ (22 :> "End.DX2V")
    @@ (23 :> "End.DT2U")
    @@ (24 :> "End.DT2M")
    @@ (25 :> "Reserved")
    @@ (26 :> "End.B6.Insert.Red")
    @@ (27 :> "End.B6.Encaps.Red")
    @@ (28 :> "End with USD")
    @@ (29 :> "End with PSP & USD")
    @@ (30 :> "End with USP & USD")
    @@ (31 :> "End with PSP, USP & USD")
    @@ (32 :> "End.X with USD")
    @@ (33 :> "End.X with PSP & USD")
    @@ (34 :> "End.X with USP & USD")
    @@ (35 :> "End.X with PSP, USP & USD")
    @@ (36 :> "End.T with USD")
    @@ (37 :> "End.T with PSP & USD")
    @@ (38 :> "End.T with USP & USD")
    @@ (39 :> "End.T with PSP, USP & USD")
    @@ (40 :> "End.MAP")
    @@ (41 :> "End.Limit")
    @@ (42 :> "End with NEXT-ONLY-CSID")
    @@ (43 :> "End with NEXT-CSID")
    @@ (44 :> "End with NEXT-CSID & PSP")
    @@ (45 :> "End with NEXT-CSID & USP")
    @@ (46 :> "End with NEXT-CSID, PSP & USP")
    @@ (47 :> "End with NEXT-CSID & USD")
    @@ (48 :> "End with NEXT-CSID, PSP & USD")
    @@ (49 :> "End with NEXT-CSID, USP & USD")
    @@ (50 :> "End with NEXT-CSID, PSP, USP & USD")
    @@ (51 :> "End.X with NEXT-ONLY-CSID")
    @@ (52 :> "End.X with NEXT-CSID")
    @@ (53 :> "End.X with NEXT-CSID & PSP")
    @@ (54 :> "End.X with NEXT-CSID & USP")
    @@ (55 :> "End.X with NEXT-CSID, PSP & USP")
    @@ (56 :> "End.X with NEXT-CSID & USD")
    @@ (57 :> "End.X with NEXT-CSID, PSP & USD")
    @@ (58 :> "End.X with NEXT-CSID, USP & USD")
    @@ (59 :> "End.X with NEXT-CSID, PSP, USP & USD")
    @@ (60 :> "End.DX6 with NEXT-CSID")
    @@ (61 :> "End.DX4 with NEXT-CSID")
    @@ (62 :> "End.DT6 with NEXT-CSID")
    @@ (63 :> "End.DT4 with NEXT-CSID")
    @@ (64 :> "End.DT46 with NEXT-CSID")
    @@ (65 :> "End.DX2 with NEXT-CSID")
    @@ (66 :> "End.DX2V with NEXT-CSID")
    @@ (67 :> "End.DT2U with NEXT-CSID")
    @@ (68 :> "End.DT2M with NEXT-CSID")
    @@ (69 :> "End.M.GTP6.D")
    @@ (70 :> "End.M.GTP6.Di")
    @@ (71 :> "End.M.GTP6.E")
    @@ (72 :> "End.M.GTP4.E")
    @@ (73 :> "End.DTM")
    @@ (74 :> "End.M (Mirror SID)")
    @@ (75 :> "End.Replicate")
    @@ (76 :> "End.DTMC4")
    @@ (77 :> "End.DTMC6")
    @@ (78 :> "End.DTMC46")
    @@ (79 :> "End.BXC")
    @@ (80 :> "End.BXC with PSP")
    @@ (81 :> "End.BXC with USP")
    @@ (82 :> "End.BXC with USD")
    @@ (83 :> "End.BXC with PSP, USP & USD")
    @@ (100 :> "End.PSID")
    @@ (101 :> "End with REPLACE-CSID")
    @@ (102 :> "End with REPLACE-CSID & PSP")
    @@ (103 :> "End with REPLACE-CSID & USP")
    @@ (104 :> "End with REPLACE-CSID, PSP & USP")
    @@ (105 :> "End.X with REPLACE-CSID")
    @@ (106 :> "End.X with REPLACE-CSID & PSP")
    @@ (107 :> "End.X with REPLACE-CSID & USP")
    @@ (108 :> "End.X with REPLACE-CSID, PSP & USP")
    @@ (109 :> "End.T with COC")
    @@ (110 :> "End.T with PSP&COC")
    @@ (112 :> "End.T with PSP&USP&COC")
    @@ (128 :> "End with REPLACE-CSID & USD")
    @@ (129 :> "End with REPLACE-CSID, USP & USD")
    @@ (130 :> "End with REPLACE-CSID, PSP & USD")
    @@ (131 :> "End with REPLACE-CSID, PSP, USP & USD")
    @@ (132 :> "End.X with REPLACE-CSID & USD")
    @@ (133 :> "End.X with REPLACE-CSID, PSP & USD")
    @@ (134 :> "End.X with REPLACE-CSID, USP & USD")
    @@ (135 :> "End.X with REPLACE-CSID, PSP, USP & USD")
    @@ (137 :> "End.T with PSP&USD&COC")
    @@ (139 :> "End.T with PSP&USP&USD&COC")
    @@ (150 :> "End.XU")
    @@ (151 :> "End.XU with PSP")
    @@ (152 :> "End.XU with USP")
    @@ (153 :> "End.XU with USD")
    @@ (154 :> "End.XU with PSP, USP & USD")
    @@ (155 :> "End.XU with REPPLACE-CSID")
    @@ (156 :> "End.XU with REPPLACE-CSID & PSP")
    @@ (157 :> "End.XU with REPPLACE-CSID & PSP & USP & USD")
    @@ (32767 :> "The SID defined in [RFC8754]")
    @@ (65535 :> "Opaque")

\* endpoint_behavior_codepoint_to_name(code), code a uint16_t
\* A private-use range that reaches one code too far
NameWithWiderPrivateUse(code) ==
    IF code \in DOMAIN BehaviorTable THEN BehaviorTable[code]
    ELSE IF 32768 <= code /\ code <= 34816 THEN "Reserved for Private Use"
    ELSE IF 34817 <= code /\ code <= 65534 THEN "Reserved"
    ELSE "Unassigned"

endpoint_behavior_codepoint_to_name(code) ==
    IF code \in DOMAIN BehaviorTable THEN BehaviorTable[code]
    ELSE IF 32768 <= code /\ code <= 34815 THEN "Reserved for Private Use"
    ELSE IF 34816 <= code /\ code <= 65534 THEN "Reserved"
    ELSE "Unassigned"

-----------------------------------------------------------------------------
(* Memory and BGPPrefixSID::readData                                       *)

\* The byte at offset i from the start of the attribute: a byte of the
\* buffer, or, outside it, the byte that happens to lie behind the buffer.
MemAt(s, i) == IF 0 <= i /\ i < Len(s.buf) THEN s.buf[i + 1] ELSE s.tail

Reverse(q) == SubSeq([i \in 1..Len(q) |-> q[Len(q) + 1 - i]], 1, Len(q))

\* readData(field, data, size, host_byte_order): the bytes stored into
\* field[0..size-1], copied from data[size-1..0] when host_byte_order is
\* set and from data[0..size-1] otherwise.
readData(s, p, size, host_byte_order) ==
    With(SubSeq([i \in 1..size |-> MemAt(s, p + i - 1)], 1, size), LAMBDA raw :
         IF host_byte_order THEN Reverse(raw) ELSE raw)

\* The value of a uint8_t object holding the byte f[1].
U8(f) == f[1]

\* The value of a uint16_t object whose storage holds f[1], f[2]
\* (little-endian host).
U16(f) == f[1] + 256 * f[2]

\* The four header reads of every level: type (1), len (2), reserved (1),
\* each with the default host_byte_order = true.
ReadHdr(s, p) ==
    [type     |-> U8(readData(s, p, 1, TRUE)),
     len      |-> U16(readData(s, p + 1, 2, TRUE)),
     reserved |-> U8(readData(s, p + 3, 1, TRUE))]

NoHdr == [type |-> 0, len |-> 0, reserved |-> 0]

-----------------------------------------------------------------------------
(* Type codes and loop arithmetic                                          *)

BGP_PREFIX_SID_TLV_TYPE_SRV6_L3_SERVICE_TLV == 5

SRV6_SID_INFORMATION_SUB_TLV == 1

SRV6_SID_STRUCTURE_SUB_SUB_TLV == 1

\* while(attr_len>0)
TopLoopCond(len) == len > 0

\* while(tlv_len)
SubLoopCond(len) == len # 0

\* while(subtlv_len>0)
SubSubLoopCond(len) == len > 0

\* ++cnt > 3, evaluated on the incremented counter
TooMuchLoop(cnt) == cnt > 3

\* The budget an element takes from its level: len + 3
TlvSize(len) == len + 3

\* The cursor advance past the value, after the 4 header bytes: len - 1
ValueSkip(len) == len - 1

\* int tlv_len = tlv.len-1
InnerTlvLen(len) == len - 1

\* int subtlv_len = subtlv.len-21
InnerSubTlvLen(len) == len - 21

-----------------------------------------------------------------------------
(* The decoder as a step function on the record s of its variables         *)

\* What one iteration met: the level, the branch taken, the header read at
\* offset start, the remaining budget of the level before it, the bytes it
\* read (header and fixed fields) and the children the level's tree had.
Note(level, op, h, start, budget, need, kids) ==
    [level |-> level, op |-> op, type |-> h.type, len |-> h.len,
     start |-> start, budget |-> budget, need |-> need, kids |-> kids]

NoNote == [level |-> "none", op |-> "none", type |-> 0, len |-> 0,
           start |-> 0, budget |-> 0, need |-> 0, kids |-> 0]

\* parseBGPPrefixSIDAttr, lines 96-98: after the switch
TopTail(s) ==
    [s EXCEPT !.attr_len = @ - TlvSize(s.tlv.len),
              !.data = @ + ValueSkip(s.tlv.len),
              !.pc = "top"]

\* return pt; of parseSRv6L3ServiceTLV, then lines 87-88 and 96-98 of the
\* caller.  The callee's locals keep their last values until the next call
\* sets them again.
L3Return(s) ==
    With([s EXCEPT !.pt = AddChild(@, "srv6_l3_service", s.l3_pt),
                   !.treeEnd = Max(@, s.tlvStart + TlvSize(s.tlv.len))],
         TopTail)

\* parseSRv6L3ServiceTLV, lines 212-219: after the switch
SubTail(s) ==
    With([s EXCEPT !.tlv_data = @ + ValueSkip(s.subtlv.len),
                   !.tlv_len = @ - TlvSize(s.subtlv.len),
                   !.tlv_cnt = @ + 1],
         LAMBDA t : IF TooMuchLoop(t.tlv_cnt) THEN L3Return(t)
                    ELSE [t EXCEPT !.pc = "sub"])

\* lines 204-205, when the sub-sub-TLV loop has ended, then the tail
SidInfoEnd(s) ==
    With([s EXCEPT !.l3_pt = AddChild(@, "sid_information", s.sub_pt),
                   !.treeEnd = Max(@, s.subStart + TlvSize(s.subtlv.len))],
         SubTail)

\* One iteration of while(attr_len>0), lines 77-98; a type 5 TLV enters
\* parseSRv6L3ServiceTLV (lines 105-106).
TopIter(s) ==
    With(ReadHdr(s, s.data), LAMBDA h :
    With([s EXCEPT !.tlv = h, !.tlvStart = s.data, !.data = @ + 4,
                   !.maxRead = Max(@, s.data + 3),
                   !.nTop = @ + 1,
                   !.last = Note("top",
                                 IF h.type = BGP_PREFIX_SID_TLV_TYPE_SRV6_L3_SERVICE_TLV
                                 THEN "call" ELSE "skip",
                                 h, s.data, s.attr_len, 4, Len(s.pt.kids))],
         LAMBDA t :
            IF h.type = BGP_PREFIX_SID_TLV_TYPE_SRV6_L3_SERVICE_TLV
            THEN [t EXCEPT !.pc = "sub", !.tlv_len = InnerTlvLen(h.len),
                           !.tlv_data = t.data, !.l3_pt = EmptyTree,
                           !.tlv_cnt = 0, !.nSub = 0, !.nSid = 0]
            ELSE TopTail(t)))

\* parsed_data.attr_prefix_sid = pt, line 100
TopEnd(s) == [s EXCEPT !.parsed = s.pt, !.pc = "done"]

\* The SID Information fields put into sub_pt, lines 125-135
SidInfoTree(sid_value, service_sid_flags, endpoint_behavior) ==
    Put(Put(Put(Put(EmptyTree,
                    "sid_value", InetNtop(sid_value)),
                "service_sid_flags", ToDec(service_sid_flags)),
            "endpoint_behavior_codepoint", ToDec(endpoint_behavior)),
        "endpoint_behavior", endpoint_behavior_codepoint_to_name(endpoint_behavior))

\* One iteration of while(tlv_len), lines 109-219, up to the start of the
\* sub-sub-TLV loop for a SID Information sub-TLV.
SubIter(s) ==
    With(ReadHdr(s, s.tlv_data), LAMBDA h :
    With(h.type = SRV6_SID_INFORMATION_SUB_TLV, LAMBDA known :
    With([s EXCEPT !.subtlv = h, !.subStart = s.tlv_data,
                   !.tlv_data = @ + 4,
                   !.maxRead = Max(@, s.tlv_data + (IF known THEN 23 ELSE 3)),
                   !.nSub = @ + 1,
                   !.last = Note("sub", IF known THEN "sid" ELSE "skip",
                                 h, s.tlv_data, s.tlv_len,
                                 IF known THEN 24 ELSE 4, Len(s.l3_pt.kids))],
         LAMBDA t :
            IF known
            THEN [t EXCEPT !.pc = "subsub",
                           !.sub_pt = SidInfoTree(readData(s, t.tlv_data, 16, FALSE),
                                                  U8(readData(s, t.tlv_data + 16, 1, TRUE)),
                                                  U16(readData(s, t.tlv_data + 17, 2, TRUE))),
                           !.sub_data = t.tlv_data + 20,
                           !.subtlv_len = InnerSubTlvLen(h.len),
                           !.subtlv_cnt = 0, !.nSubSub = 0, !.nSid = @ + 1]
            ELSE SubTail(t))))

\* The six SID Structure fields, lines 167-184: *subsub_data++ six times
SidStructureTree(s, p) ==
    Put(Put(Put(Put(Put(Put(EmptyTree,
                            "locator_block_length", ToDec(MemAt(s, p))),
                        "locator_node_length", ToDec(MemAt(s, p + 1))),
                    "function_length", ToDec(MemAt(s, p + 2))),
                "argument_length", ToDec(MemAt(s, p + 3))),
            "transposition_length", ToDec(MemAt(s, p + 4))),
        "transposition_offset", ToDec(MemAt(s, p + 5)))

\* One iteration of while(subtlv_len>0), lines 154-203
SubSubIter(s) ==
    With(ReadHdr(s, s.sub_data), LAMBDA h :
    With(h.type = SRV6_SID_STRUCTURE_SUB_SUB_TLV, LAMBDA known :
    With(s.subtlv_cnt + 1, LAMBDA cnt :
    With([s EXCEPT !.sub_pt = IF known
                              THEN AddChild(@, "sid_structure",
                                            SidStructureTree(s, s.sub_data + 4))
                              ELSE @,
                   !.treeEnd = IF known THEN Max(@, s.sub_data + TlvSize(h.len)) ELSE @,
                   !.sub_data = @ + 4 + ValueSkip(h.len),
                   !.subtlv_len = @ - TlvSize(h.len),
                   !.subtlv_cnt = cnt,
                   !.tlv_cnt = IF TooMuchLoop(cnt) THEN @ + 1 ELSE @,
                   !.maxRead = Max(@, s.sub_data + (IF known THEN 9 ELSE 3)),
                   !.nSubSub = @ + 1,
                   !.last = Note("subsub", IF known THEN "struct" ELSE "skip",
                                 h, s.sub_data, s.subtlv_len,
                                 IF known THEN 10 ELSE 4, Len(s.sub_pt.kids))],
         LAMBDA t :
            IF TooMuchLoop(cnt) /\ TooMuchLoop(t.tlv_cnt)
            THEN SidInfoEnd(t)
            ELSE [t EXCEPT !.pc = "subsub"]))))

\* The next step of the decoder from s (s.pc # "done")
StepOf(s) ==
    CASE s.pc = "top"    -> IF TopLoopCond(s.attr_len) THEN TopIter(s) ELSE TopEnd(s)
      [] s.pc = "sub"    -> IF SubLoopCond(s.tlv_len) THEN SubIter(s) ELSE L3Return(s)
      [] s.pc = "subsub" -> IF SubSubLoopCond(s.subtlv_len) THEN SubSubIter(s)
                            ELSE SidInfoEnd(s)

\* The state at the start of parseBGPPrefixSIDAttr(len, data, parsed_data)
\* with data pointing at the bytes b, followed in memory by bytes of value fill.
Start(b, fill, len) ==
    [buf |-> b, tail |-> fill, in_len |-> len, pc |-> "top",
     attr_len |-> len, data |-> 0, tlv |-> NoHdr, tlvStart |-> 0,
     pt |-> EmptyTree, parsed |-> EmptyTree,
     tlv_len |-> 0, tlv_data |-> 0, subtlv |-> NoHdr, subStart |-> 0,
     l3_pt |-> EmptyTree, tlv_cnt |-> 0,
     subtlv_len |-> 0, sub_data |-> 0, sub_pt |-> EmptyTree, subtlv_cnt |-> 0,
     maxRead |-> -1, treeEnd |-> 0,
     nTop |-> 0, nSub |-> 0, nSid |-> 0, nSubSub |-> 0, last |-> NoNote]

RECURSIVE Run(_)
\* The decoder run to completion from s
Run(s) == IF s.pc = "done" THEN s ELSE Run(StepOf(s))

\* parsed_data.attr_prefix_sid after parseBGPPrefixSIDAttr(len, b, ...)
Decode(b, fill, len) == Run(Start(b, fill, len)).parsed

-----------------------------------------------------------------------------
(* The state machine                                                       *)

VARIABLES
    buf,        \* the attribute bytes data points at
    tail,       \* the byte value found behind the buffer
    in_len,     \* attr_len as passed by the caller
    pc,         \* "top", "sub", "subsub": at the head of that loop; "done"
    attr_len, data, tlv, pt,                    \* parseBGPPrefixSIDAttr
    parsed,                                     \* parsed_data.attr_prefix_sid
    tlv_len, tlv_data, subtlv, l3_pt, tlv_cnt,  \* parseSRv6L3ServiceTLV
    subtlv_len, sub_data, sub_pt, subtlv_cnt,   \* its SID Information case
    tlvStart,   \* offset of the header of the TLV being decoded
    subStart,   \* offset of the header of the sub-TLV being decoded
    maxRead,    \* highest offset read so far, -1 when none
    treeEnd,    \* highest end offset of an element that has a node in a tree
    nTop,       \* iterations of while(attr_len>0) so far
    nSub,       \* iterations of while(tlv_len) in the current/last call
    nSid,       \* SID Information sub-TLVs dispatched in that call
    nSubSub,    \* iterations of while(subtlv_len>0) in the current/last walk
    last,       \* the element the last iteration read, and the budget it met
    steps       \* steps taken

vars == <<buf, tail, in_len, pc, attr_len, data, tlv, pt, parsed,
          tlv_len, tlv_data, subtlv, l3_pt, tlv_cnt,
          subtlv_len, sub_data, sub_pt, subtlv_cnt,
          tlvStart, subStart, maxRead, treeEnd,
          nTop, nSub, nSid, nSubSub, last, steps>>

St ==
    [buf |-> buf, tail |-> tail, in_len |-> in_len, pc |-> pc,
     attr_len |-> attr_len, data |-> data, tlv |-> tlv, tlvStart |-> tlvStart,
     pt |-> pt, parsed |-> parsed,
     tlv_len |-> tlv_len, tlv_data |-> tlv_data, subtlv |-> subtlv,
     subStart |-> subStart, l3_pt |-> l3_pt, tlv_cnt |-> tlv_cnt,
     subtlv_len |-> subtlv_len, sub_data |-> sub_data, sub_pt |-> sub_pt,
     subtlv_cnt |-> subtlv_cnt,
     maxRead |-> maxRead, treeEnd |-> treeEnd,
     nTop |-> nTop, nSub |-> nSub, nSid |-> nSid, nSubSub |-> nSubSub,
     last |-> last]

Set(s) ==
    /\ buf' = s.buf /\ tail' = s.tail /\ in_len' = s.in_len /\ pc' = s.pc
    /\ attr_len' = s.attr_len /\ data' = s.data /\ tlv' = s.tlv
    /\ tlvStart' = s.tlvStart /\ pt' = s.pt /\ parsed' = s.parsed
    /\ tlv_len' = s.tlv_len /\ tlv_data' = s.tlv_data /\ subtlv' = s.subtlv
    /\ subStart' = s.subStart /\ l3_pt' = s.l3_pt /\ tlv_cnt' = s.tlv_cnt
    /\ subtlv_len' = s.subtlv_len /\ sub_data' = s.sub_data
    /\ sub_pt' = s.sub_pt /\ subtlv_cnt' = s.subtlv_cnt
    /\ maxRead' = s.maxRead /\ treeEnd' = s.treeEnd
    /\ nTop' = s.nTop /\ nSub' = s.nSub /\ nSid' = s.nSid
    /\ nSubSub' = s.nSubSub /\ last' = s.last

\* The variables hold the record s
Holds(s) ==
    /\ buf = s.buf /\ tail = s.tail /\ in_len = s.in_len /\ pc = s.pc
    /\ attr_len = s.attr_len /\ data = s.data /\ tlv = s.tlv
    /\ tlvStart = s.tlvStart /\ pt = s.pt /\ parsed = s.parsed
    /\ tlv_len = s.tlv_len /\ tlv_data = s.tlv_data /\ subtlv = s.subtlv
    /\ subStart = s.subStart /\ l3_pt = s.l3_pt /\ tlv_cnt = s.tlv_cnt
    /\ subtlv_len = s.subtlv_len /\ sub_data = s.sub_data
    /\ sub_pt = s.sub_pt /\ subtlv_cnt = s.subtlv_cnt
    /\ maxRead = s.maxRead /\ treeEnd = s.treeEnd
    /\ nTop = s.nTop /\ nSub = s.nSub /\ nSid = s.nSid
    /\ nSubSub = s.nSubSub /\ last = s.last

\* Steps one run may take in the model
MaxSteps == 60

Tick == steps < MaxSteps /\ steps' = steps + 1

\* while(attr_len>0), a TLV of another type than 5: default case
TopIterSkip ==
    /\ pc = "top" /\ TopLoopCond(attr_len)
    /\ ReadHdr(St, data).type # BGP_PREFIX_SID_TLV_TYPE_SRV6_L3_SERVICE_TLV
    /\ Tick /\ \E s \in {TopIter(St)} : Set(s)

\* while(attr_len>0), a type 5 TLV: parseSRv6L3ServiceTLV is entered
TopIterService ==
    /\ pc = "top" /\ TopLoopCond(attr_len)
    /\ ReadHdr(St, data).type = BGP_PREFIX_SID_TLV_TYPE_SRV6_L3_SERVICE_TLV
    /\ Tick /\ \E s \in {TopIter(St)} : Set(s)

\* attr_len <= 0: the loop ends and the tree is stored
TopExit ==
    /\ pc = "top" /\ ~TopLoopCond(attr_len)
    /\ Tick /\ \E s \in {TopEnd(St)} : Set(s)

\* while(tlv_len), a sub-TLV of another type than 1
SubIterSkip ==
    /\ pc = "sub" /\ SubLoopCond(tlv_len)
    /\ ReadHdr(St, tlv_data).type # SRV6_SID_INFORMATION_SUB_TLV
    /\ Tick /\ \E s \in {SubIter(St)} : Set(s)

\* while(tlv_len), a SID Information sub-TLV, up to its sub-sub-TLV loop
SubIterSidInfo ==
    /\ pc = "sub" /\ SubLoopCond(tlv_len)
    /\ ReadHdr(St, tlv_data).type = SRV6_SID_INFORMATION_SUB_TLV
    /\ Tick /\ \E s \in {SubIter(St)} : Set(s)

\* tlv_len = 0: parseSRv6L3ServiceTLV returns
SubExit ==
    /\ pc = "sub" /\ ~SubLoopCond(tlv_len)
    /\ Tick /\ \E s \in {L3Return(St)} : Set(s)

\* while(subtlv_len>0), a SID Structure sub-sub-TLV
SubSubIterStructure ==
    /\ pc = "subsub" /\ SubSubLoopCond(subtlv_len)
    /\ ReadHdr(St, sub_data).type = SRV6_SID_STRUCTURE_SUB_SUB_TLV
    /\ Tick /\ \E s \in {SubSubIter(St)} : Set(s)

\* while(subtlv_len>0), a sub-sub-TLV of another type than 1
SubSubIterSkip ==
    /\ pc = "subsub" /\ SubSubLoopCond(subtlv_len)
    /\ ReadHdr(St, sub_data).type # SRV6_SID_STRUCTURE_SUB_SUB_TLV
    /\ Tick /\ \E s \in {SubSubIter(St)} : Set(s)

\* subtlv_len <= 0: the sub-sub-TLV loop ends, the sub-TLV is attached
SubSubExit ==
    /\ pc = "subsub" /\ ~SubSubLoopCond(subtlv_len)
    /\ Tick /\ \E s \in {SidInfoEnd(St)} : Set(s)

Next ==
    \/ TopIterSkip
    \/ TopIterService
    \/ TopExit
    \/ SubIterSkip
    \/ SubIterSidInfo
    \/ SubExit
    \/ SubSubIterStructure
    \/ SubSubIterSkip
    \/ SubSubExit

-----------------------------------------------------------------------------
(* Inputs: attribute buffers built from encoded elements                   *)

RECURSIVE Rep(_, _)
Rep(q, n) == IF n <= 0 THEN <<>> ELSE q \o Rep(q, n - 1)

\* type, 2-byte length in network order, reserved
EncHdr(t, l) == <<t, l \div 256, l % 256, 0>>

\* An element of type t with n value bytes after the reserved byte
EncPlain(t, n) == EncHdr(t, n + 1) \o [i \in 1..n |-> 170]

EncSidStructure(f) == EncHdr(1, 7) \o f

EncSidInfo(sid, flags, eb, subsubs) ==
    EncHdr(1, 21 + Len(subsubs)) \o sid \o <<flags, eb \div 256, eb % 256, 0>> \o subsubs

EncL3Service(subs) == EncHdr(5, 1 + Len(subs)) \o subs

ZeroSid == [i \in 1..16 |-> 0]

Sids ==
    { <<32, 1, 13, 184, 0, 0, 0, 0, 0, 0, 0, 0, 0, 0, 0, 1>>,
      ZeroSid,
      [i \in 1..16 |-> 255],
      <<32, 1, 0, 0, 0, 1, 0, 0, 0, 0, 0, 1, 0, 0, 0, 0>>,
      <<1, 2, 3, 4, 5, 6, 7, 8, 9, 10, 11, 12, 13, 14, 15, 16>>,
      [ZeroSid EXCEPT ![11] = 255, ![12] = 255, ![13] = 192, ![14] = 0, ![15] = 2, ![16] = 1] }

StdSid == <<32, 1, 13, 184, 0, 0, 0, 0, 0, 0, 0, 0, 0, 0, 0, 1>>

Behaviors == {0, 18, 20, 84, 258, 32767, 33000, 40000, 65535}

FlagValues == {0, 64, 255}

StructValues == { <<32, 16, 16, 0, 0, 0>>, <<40, 24, 16, 8, 16, 48>>, <<1, 2, 3, 4, 5, 255>> }

StdStruct == EncSidStructure(<<32, 16, 16, 0, 0, 0>>)

StdSidInfo == EncSidInfo(StdSid, 0, 18, StdStruct)

StdAttr == EncL3Service(StdSidInfo)

\* Sibling counts and sizes the inputs range over
MaxTopSib == 5

MaxSubSib == 5

MaxSubSubSib == 8

MaxSmall == 4

\* a unknown TLVs with n value bytes, the TLVs svc, c unknown TLVs
TopInput(n, a, svc, c) == Rep(EncPlain(99, n), a) \o svc \o Rep(EncPlain(3, n), c)

TopInputs ==
    { TopInput(n, a, svc, c) :
        n \in {0, 2}, a \in 0..MaxTopSib, svc \in {<<>>, StdAttr}, c \in 0..1 }

\* One L3 Service TLV: p unknown sub-TLVs, k SID Information sub-TLVs,
\* q unknown sub-TLVs
SubInput(p, k, q) ==
    EncL3Service(Rep(EncPlain(7, 1), p) \o Rep(StdSidInfo, k) \o Rep(EncPlain(2, 0), q))

SubInputs ==
    { SubInput(p, k, q) : p \in 0..MaxSubSib, k \in 0..MaxSubSib, q \in 0..1 }

\* One L3 Service TLV: p unknown sub-TLVs, a SID Information sub-TLV with u
\* unknown, k SID Structure and w unknown sub-sub-TLVs, and another
\* SID Information sub-TLV
SubSubInput(p, u, k, w) ==
    EncL3Service(Rep(EncPlain(7, 1), p)
                 \o EncSidInfo(StdSid, 0, 18, Rep(EncPlain(9, 1), u) \o Rep(StdStruct, k)
                                               \o Rep(EncPlain(9, 1), w))
                 \o StdSidInfo)

SubSubInputs ==
    { SubSubInput(p, u, k, w) : p \in 0..3, u \in 0..MaxSubSubSib, k \in 0..2, w \in 0..1 }

\* The well-formed single attribute over field values
ValueInputs ==
    { EncL3Service(EncSidInfo(sid, fl, eb, EncSidStructure(f))) :
        sid \in Sids, fl \in FlagValues, eb \in Behaviors, f \in StructValues }

Prefixes(b) == { SubSeq(b, 1, n) : n \in 0..Len(b) }

\* Well-formed attributes truncated at every byte boundary
TruncInputs ==
    Prefixes(StdAttr) \cup Prefixes(EncPlain(99, 2) \o StdAttr \o EncPlain(3, 1))

LenValues == {0, 1, 2, 3, 4, 6, 7, 8, 10, 20, 21, 22, 24, 30, 31, 32, 35, 36, 255, 256, 32768, 65535}

LenPositions == {2, 6, 30}

\* The well-formed single attribute with one length field overwritten
LenInputs ==
    { [StdAttr EXCEPT ![p] = l \div 256, ![p + 1] = l % 256] :
        p \in LenPositions, l \in LenValues }

TypePositions == {1, 5, 29}

\* The well-formed single attribute with one type field overwritten
TypeInputs ==
    { [StdAttr EXCEPT ![p] = t] : p \in TypePositions, t \in {0, 1, 2, 5, 255} }

SmallBytes == {0, 1, 5, 255}

RECURSIVE SeqsUpTo(_, _)
SeqsUpTo(S, n) ==
    IF n = 0 THEN {<<>>}
    ELSE LET shorter == SeqsUpTo(S, n - 1)
         IN shorter \cup { Append(q, x) : q \in shorter, x \in S }

\* Every short buffer over a few byte values
SmallInputs == SeqsUpTo(SmallBytes, MaxSmall)

Buffers ==
    TopInputs \cup SubInputs \cup SubSubInputs \cup ValueInputs \cup TruncInputs
              \cup LenInputs \cup TypeInputs \cup SmallInputs

\* attr_len values that differ from the buffer size
OtherLens(b) == {-1, 0, Len(b) - 1, Len(b) + 1, Len(b) + 4}

Inputs ==
    { [b |-> b, len |-> Len(b)] : b \in Buffers }
    \cup { [b |-> b, len |-> l] : b \in {StdAttr, <<>>, EncPlain(99, 2)}, l \in UNION {OtherLens(c) : c \in {StdAttr, <<>>, EncPlain(99, 2)}} }

TailValues == {0, 1, 255}

Init ==
    \E in \in Inputs, fill \in TailValues :
        /\ Holds(Start(in.b, fill, in.len))
        /\ steps = 0

Spec == Init /\ [][Next]_vars

\* The decoder is a single sequential call: it keeps running until it returns.
FairSpec == Spec /\ WF_vars(Next)

-----------------------------------------------------------------------------
(* Properties of the decoder                                               *)

\* The attribute was handed over with its true size
WholeBuffer == in_len = Len(buf)

\* C1: when attr_len is the size of the buffer, no byte at an offset
\* >= attr_len is ever read, and every element put into the tree ends inside
\* the buffer.
NoOverread == WholeBuffer => (maxRead < in_len /\ treeEnd <= in_len)

\* C2: at each of the three levels an element is dispatched only if the
\* bytes read for it (header plus the fields taken from its value) and its
\* declared size both fit the remaining budget of its level.
DecodedOnlyIfFits ==
    last.level # "none" => (last.need <= last.budget /\ TlvSize(last.len) <= last.budget)

\* Iterations of the three loops: the top-level walk takes at least 3 from
\* attr_len per TLV, the sub-TLV walk runs at most 4 times per call and the
\* sub-sub-TLV walk at most 7 times per SID Information sub-TLV.
LoopBounds ==
    /\ 3 * nTop <= Max(in_len, 0) + 2
    /\ nSub <= 4
    /\ nSubSub <= 7

\* C3: for every content and every attr_len the call returns, and each of the
\* three loops runs a bounded number of times, also with length fields that
\* are 0, exceed the budget or drive it negative.
Terminates == [](LoopBounds) /\ <>(pc = "done")

\* The call returned although a declared length drove both attr_len and
\* tlv_len below zero
TerminatedOnNegativeBudget ==
    pc = "done" /\ attr_len < 0 /\ tlv_len < 0 /\ nSub = 4

\* C4: one call of parseSRv6L3ServiceTLV processes at most 4 sub-TLVs: every
\* sub-TLV processed raises tlv_cnt, the walk goes on only while tlv_cnt is
\* at most 3, and the tree handed back holds every SID Information sub-TLV
\* decoded up to the abort.
SubTlvBound ==
    /\ nSub <= 4
    /\ (pc \in {"sub", "subsub"} => tlv_cnt <= 3)
    /\ (pc = "sub" => nSub <= tlv_cnt)
    /\ (pc \in {"top", "done"} /\ Len(pt.kids) > 0 =>
            /\ pt.kids[Len(pt.kids)].key = "srv6_l3_service"
            /\ pt.kids[Len(pt.kids)].node = l3_pt
            /\ Len(l3_pt.kids) = nSid)

\* The sub-TLV walk was aborted after its 4th sub-TLV with budget left, and
\* the SID Information sub-TLVs decoded so far were returned
SubWalkAborted ==
    /\ pc = "top"
    /\ nSub = 4
    /\ tlv_len > 0
    /\ Len(pt.kids) > 0
    /\ Len(pt.kids[Len(pt.kids)].node.kids) = 4

\* C5: the sub-sub-TLV walk of one SID Information sub-TLV processes at most
\* 4 sub-sub-TLVs, whatever came before it.
SubSubTlvBound == nSubSub <= 4

\* C6: the sub-sub-TLV walk leaves tlv_cnt alone (inside it tlv_cnt is the
\* number of sub-TLVs completed before), and the sub-TLV walk ends only when
\* its budget is used up or it has processed 4 sub-TLVs itself.
InnerAbortIsLocal ==
    /\ (pc = "subsub" => tlv_cnt = nSub - 1)
    /\ (pc \in {"top", "done"} /\ nSub >= 1 => (nSub = 4 \/ tlv_len = 0))

\* C7 as stated: no more than 4 top-level TLVs are processed in one call.
TopTlvBound == nTop <= 4

\* C7: the top-level walk has no sibling counter; it runs while attr_len is
\* positive, every TLV takes at least 3 from attr_len, and the call returns
\* only with attr_len used up.
TopWalkBudgetBound ==
    /\ 3 * nTop <= Max(in_len, 0) + 2
    /\ (last.level = "top" /\ pc \in {"top", "done"} =>
            attr_len = last.budget - TlvSize(last.len))
    /\ (pc = "done" => attr_len <= 0)

\* More than 4 top-level TLVs were processed in a call that returned
ManyTopTlvs == pc = "done" /\ nTop > 4 /\ WholeBuffer

\* C8: the sub-TLV walk reads a sub-TLV header only while its remaining
\* tlv_len is positive.
NoHeaderOnSpentBudget == last.level = "sub" => last.budget > 0

\* The call has returned on an attribute handed over with its true size
Done == pc = "done" /\ WholeBuffer

\* After an element of unknown type: the cursor of its level is len + 3
\* past the start of the element, the budget is down by len + 3 and the tree
\* of the level has the children it had before.
SkipAdvances ==
    /\ (last.level = "top" /\ last.op = "skip" =>
            /\ data = last.start + last.len + 3
            /\ attr_len = last.budget - (last.len + 3)
            /\ Len(pt.kids) = last.kids)
    /\ (last.level = "sub" /\ last.op = "skip" =>
            /\ tlv_data = last.start + last.len + 3
            /\ tlv_len = last.budget - (last.len + 3)
            /\ Len(l3_pt.kids) = last.kids)
    /\ (last.level = "subsub" /\ last.op = "skip" =>
            /\ sub_data = last.start + last.len + 3
            /\ subtlv_len = last.budget - (last.len + 3)
            /\ Len(sub_pt.kids) = last.kids)

\* The tree decoded from b alone
Alone(b) == Decode(b, tail, Len(b))

\* Unknown top-level TLVs around an L3 Service TLV, or on their own, give
\* the tree of the attribute without them (the empty tree when alone).
AbsentAtTop ==
    \A n \in {0, 2}, a \in 0..MaxTopSib, svc \in {<<>>, StdAttr}, c \in 0..1 :
        Done /\ buf = TopInput(n, a, svc, c) =>
            /\ parsed = Alone(svc)
            /\ (svc = <<>> => parsed = EmptyTree)

\* Unknown sub-TLVs in an L3 Service TLV with at most limit sub-TLVs give the
\* tree of the TLV without them.
AbsentAtSub(limit) ==
    \A p \in 0..MaxSubSib, k \in 0..MaxSubSib, q \in 0..1 :
        Done /\ buf = SubInput(p, k, q) /\ p + k + q <= limit =>
            parsed = Alone(SubInput(0, k, 0))

\* Unknown sub-sub-TLVs in a SID Information sub-TLV with at most limit
\* sub-sub-TLVs give the tree of the TLV without them.
AbsentAtSubSub(limit) ==
    \A p \in 0..3, u \in 0..MaxSubSubSib, k \in 0..2, w \in 0..1 :
        Done /\ buf = SubSubInput(p, u, k, w) /\ u + k + w <= limit =>
            parsed = Alone(SubSubInput(p, 0, k, 0))

\* p unknown sub-TLVs ahead of k SID Information sub-TLVs use up p of the 4
\* sub-TLVs the walk processes.
SkippedSubTlvCounts ==
    \A p \in 0..MaxSubSib, k \in 0..MaxSubSib, q \in 0..1 :
        Done /\ buf = SubInput(p, k, q) =>
            /\ Len(parsed.kids) = 1
            /\ Len(parsed.kids[1].node.kids) =
                   IF p >= 4 THEN 0 ELSE IF k <= 4 - p THEN k ELSE 4 - p

\* C9 as stated: at every level an element of unknown type adds no node,
\* moves the cursor by len + 3, and leaves the decoding of the elements
\* after it as if it were absent.
UnknownAsIfAbsent ==
    /\ SkipAdvances
    /\ AbsentAtTop
    /\ AbsentAtSub(2 * MaxSubSib + 1)
    /\ AbsentAtSubSub(MaxSubSubSib + 3)

\* C9: an element of unknown type adds no node and moves the cursor by
\* len + 3 at every level; what follows is decoded as if it were absent at
\* the top level, and below it as long as the siblings, unknown ones
\* included, number at most 4 sub-TLVs and at most 3 sub-sub-TLVs, because
\* a skipped element is counted like any other.
UnknownSkipped ==
    /\ SkipAdvances
    /\ AbsentAtTop
    /\ AbsentAtSub(4)
    /\ AbsentAtSubSub(3)
    /\ SkippedSubTlvCounts

\* An L3 Service TLV between two unknown top-level TLVs was decoded
UnknownAroundKnown ==
    /\ Done
    /\ buf = TopInput(2, 1, StdAttr, 1)
    /\ last.level = "top" /\ last.op = "skip"
    /\ Len(parsed.kids) = 1

\* The decimal text of the field values used in the attributes below
DecText ==
    (0 :> "0") @@ (1 :> "1") @@ (2 :> "2") @@ (3 :> "3") @@ (4 :> "4") @@ (5 :> "5")
    @@ (8 :> "8") @@ (16 :> "16") @@ (18 :> "18") @@ (20 :> "20") @@ (24 :> "24")
    @@ (32 :> "32") @@ (40 :> "40") @@ (48 :> "48") @@ (64 :> "64") @@ (84 :> "84")
    @@ (255 :> "255") @@ (258 :> "258") @@ (32767 :> "32767") @@ (33000 :> "33000")
    @@ (40000 :> "40000") @@ (65535 :> "65535")

\* The IPv6 text of the SIDs used in the attributes below (RFC 5952 form)
SidText ==
    (<<32, 1, 13, 184, 0, 0, 0, 0, 0, 0, 0, 0, 0, 0, 0, 1>> :> "2001:db8::1")
    @@ (<<0, 0, 0, 0, 0, 0, 0, 0, 0, 0, 0, 0, 0, 0, 0, 0>> :> "::")
    @@ (<<255, 255, 255, 255, 255, 255, 255, 255, 255, 255, 255, 255, 255, 255, 255, 255>>
            :> "ffff:ffff:ffff:ffff:ffff:ffff:ffff:ffff")
    @@ (<<32, 1, 0, 0, 0, 1, 0, 0, 0, 0, 0, 1, 0, 0, 0, 0>> :> "2001:0:1::1:0:0")
    @@ (<<1, 2, 3, 4, 5, 6, 7, 8, 9, 10, 11, 12, 13, 14, 15, 16>>
            :> "102:304:506:708:90a:b0c:d0e:f10")
    @@ (<<0, 0, 0, 0, 0, 0, 0, 0, 0, 0, 255, 255, 192, 0, 2, 1>> :> "::ffff:192.0.2.1")

\* The names of the endpoint behaviors used in the attributes below
NameText ==
    (0 :> "Reserved") @@ (18 :> "End.DT6") @@ (20 :> "End.DT46") @@ (84 :> "Unassigned")
    @@ (258 :> "Unassigned") @@ (32767 :> "The SID defined in [RFC8754]")
    @@ (33000 :> "Reserved for Private Use") @@ (40000 :> "Reserved")
    @@ (65535 :> "Opaque")

\* One L3 Service TLV (type 5, length 35) holding one SID Information
\* sub-TLV (type 1, length 31) holding one SID Structure sub-sub-TLV
\* (type 1, length 7), and nothing else
WellFormedSingle(b) ==
    /\ Len(b) = 38
    /\ SubSeq(b, 1, 4) = <<5, 0, 35, 0>>
    /\ SubSeq(b, 5, 8) = <<1, 0, 31, 0>>
    /\ SubSeq(b, 29, 32) = <<1, 0, 7, 0>>

KeyValue(key, text) == [key |-> key, node |-> [data |-> text, kids |-> <<>>]]

KeyNode(key, children) == [key |-> key, node |-> [data |-> "", kids |-> children]]

\* The tree of a well-formed single attribute, written out from its bytes
ExpectedSingle(b) ==
    [data |-> "",
     kids |-> << KeyNode("srv6_l3_service", <<
                   KeyNode("sid_information", <<
                     KeyValue("sid_value", SidText[SubSeq(b, 9, 24)]),
                     KeyValue("service_sid_flags", DecText[b[25]]),
                     KeyValue("endpoint_behavior_codepoint", DecText[256 * b[26] + b[27]]),
                     KeyValue("endpoint_behavior", NameText[256 * b[26] + b[27]]),
                     KeyNode("sid_structure", <<
                       KeyValue("locator_block_length", DecText[b[33]]),
                       KeyValue("locator_node_length", DecText[b[34]]),
                       KeyValue("function_length", DecText[b[35]]),
                       KeyValue("argument_length", DecText[b[36]]),
                       KeyValue("transposition_length", DecText[b[37]]),
                       KeyValue("transposition_offset", DecText[b[38]]) >>) >>) >>) >>]

\* C10: a well-formed attribute of one L3 Service TLV with one SID
\* Information sub-TLV with one SID Structure sub-sub-TLV decodes to one
\* srv6_l3_service child with one sid_information child, whose fields are
\* sid_value (the SID as IPv6 text), service_sid_flags,
\* endpoint_behavior_codepoint and endpoint_behavior, and whose one
\* sid_structure child holds the six length and offset fields, each the
\* input byte in its place.
SingleDecoded == Done /\ WellFormedSingle(buf) => parsed = ExpectedSingle(buf)

\* A well-formed single attribute with a SID that has two zero runs, a
\* private-use behavior and non-zero structure bytes was decoded
SingleDecodedSeen ==
    /\ Done
    /\ WellFormedSingle(buf)
    /\ SubSeq(buf, 9, 24) = <<32, 1, 0, 0, 0, 1, 0, 0, 0, 0, 0, 1, 0, 0, 0, 0>>
    /\ 256 * buf[26] + buf[27] = 33000
    /\ buf[38] = 255
    /\ Len(parsed.kids) = 1

-----------------------------------------------------------------------------
(* The endpoint behavior lookup over every 16-bit codepoint                *)

\* uint16_t endpoint_behavior
CodeBits == 16

AllCodes == 0..(2^CodeBits - 1)

\* A well-formed single attribute for every codepoint
CodeInputs == { EncL3Service(EncSidInfo(StdSid, 0, code, StdStruct)) : code \in AllCodes }

LookupInit ==
    \/ Init
    \/ \E b \in CodeInputs :
        /\ Holds(Start(b, 0, Len(b)))
        /\ steps = 0

\* The decoder run on the attributes of Spec and on one attribute per codepoint
LookupSpec == LookupInit /\ [][Next]_vars

\* The codepoint in the bytes of a well-formed single attribute
WireCode(b) == 256 * b[26] + b[27]

\* The endpoint_behavior text of the one sid_information of a tree
DecodedName(t) == t.kids[1].node.kids[1].node.kids[4].node.data

\* The codepoints without a case of their own below 32768
UnlistedLow ==
    (84..99) \cup {111} \cup (113..127) \cup {136, 138} \cup (140..149) \cup (158..32766)

\* C11: endpoint_behavior_codepoint_to_name gives every 16-bit code a name:
\* a code with a case of its own gets that name (1 End, 18 End.DT6,
\* 20 End.DT46, 32767, 65535, ...), 32768..34815 is Reserved for Private
\* Use, 34816..65534 is Reserved, and every other code (9999, the gaps
\* 84..99, 111, 113..127, 136, 138, 140..149, 158..32766) is Unassigned.
LookupClassified ==
    Done /\ WellFormedSingle(buf) =>
        LET code == WireCode(buf)
            name == DecodedName(parsed)
        IN  /\ (code \in 32768..34815 => name = "Reserved for Private Use")
            /\ (code \in 34816..65534 => name = "Reserved")
            /\ (code \in UnlistedLow => name = "Unassigned")
            /\ (code \notin UnlistedLow /\ code \notin 32768..65534 =>
                    /\ code \in DOMAIN BehaviorTable
                    /\ name = BehaviorTable[code]
                    /\ name # "Unassigned")
            /\ (code = 1 => name = "End")
            /\ (code = 18 => name = "End.DT6")
            /\ (code = 20 => name = "End.DT46")
            /\ (code = 32767 => name = "The SID defined in [RFC8754]")
            /\ (code = 65535 => name = "Opaque")
            /\ (code = 9999 => name = "Unassigned")

\* The lookup was applied to the last private-use code
PrivateUseEdgeSeen ==
    /\ Done
    /\ WellFormedSingle(buf)
    /\ WireCode(buf) = 34815
    /\ DecodedName(parsed) = "Reserved for Private Use"

-----------------------------------------------------------------------------
(* Field decoding                                                          *)

\* The byte at offset i of the attribute as it lies in memory
Byte(i) == IF 0 <= i /\ i < Len(buf) THEN buf[i + 1] ELSE tail

\* The unsigned network-order value of the two bytes at offsets i, i + 1
Wire16(i) == 256 * Byte(i) + Byte(i + 1)

\* C12: a 2-byte field with wire bytes b0, b1 (the length at each of the
\* three levels, the endpoint behavior) is the unsigned value 256*b0 + b1 in
\* 0..65535, so a length with b0 >= 128 gives no negative length and no
\* backward cursor move; a 1-byte field is the byte itself; the 16 SID bytes
\* are taken in buffer order.
FieldsUnsigned ==
    /\ (last.level # "none" =>
            /\ last.type = Byte(last.start)
            /\ last.len = Wire16(last.start + 1)
            /\ last.len \in 0..65535)
    /\ (last.level = "top" /\ last.op = "call" /\ pc = "sub" =>
            tlv_len = last.len - 1 /\ tlv_len >= -1)
    /\ (last.level = "top" /\ pc \in {"top", "done"} => data >= last.start + 3)
    /\ (last.level = "sub" /\ pc # "subsub" => tlv_data >= last.start + 3)
    /\ (last.level = "subsub" => sub_data >= last.start + 3)
    /\ (last.level = "sub" /\ last.op = "sid" /\ pc = "subsub" =>
            /\ Len(sub_pt.kids) = 4
            /\ subtlv_len = last.len - 21
            /\ sub_pt.kids[1].node.data = InetNtop([i \in 1..16 |-> Byte(last.start + 3 + i)])
            /\ sub_pt.kids[2].node.data = ToDec(Byte(last.start + 20))
            /\ sub_pt.kids[3].node.data = ToDec(Wire16(last.start + 21))
            /\ sub_pt.kids[4].node.data =
                   endpoint_behavior_codepoint_to_name(Wire16(last.start + 21)))
    /\ (last.level = "subsub" /\ last.op = "struct" =>
            /\ Len(sub_pt.kids) > 4
            /\ LET st == sub_pt.kids[Len(sub_pt.kids)].node
               IN  /\ Len(st.kids) = 6
                   /\ \A i \in 1..6 : st.kids[i].node.data = ToDec(Byte(last.start + 3 + i)))

\* The call returned after an L3 Service TLV whose length has its top bit
\* set moved the cursor forward by that length
HighLengthSeen ==
    /\ Done
    /\ in_len = 38
    /\ nTop = 1
    /\ tlv.type = 5
    /\ tlv.len >= 32768
    /\ data = tlv.len + 3
    /\ attr_len = in_len - (tlv.len + 3)

-----------------------------------------------------------------------------
(* Cursor and budget bookkeeping                                           *)

\* C13: at the head of every iteration of each of the three loops, the bytes
\* the level's cursor has advanced since its walk started plus the level's
\* remaining budget equal the budget the walk started with; one element
\* moves the cursor of its level by len + 3 and lowers the budget by len + 3;
\* and the sub-TLV cursor after a SID Information sub-TLV is its start plus
\* its declared length + 3, wherever its sub-sub-TLV walk ended.
BooksBalance ==
    /\ (pc \in {"top", "done"} => data + attr_len = in_len)
    /\ (pc = "sub" => (tlv_data - (tlvStart + 4)) + tlv_len = tlv.len - 1)
    /\ (pc = "subsub" => (sub_data - (subStart + 24)) + subtlv_len = subtlv.len - 21)
    /\ (last.level = "top" /\ pc \in {"top", "done"} =>
            /\ data = last.start + last.len + 3
            /\ attr_len = last.budget - (last.len + 3))
    /\ (last.level = "sub" /\ pc # "subsub" =>
            /\ tlv_data = last.start + last.len + 3
            /\ tlv_len = last.budget - (last.len + 3))
    /\ (last.level = "subsub" =>
            /\ sub_data = last.start + last.len + 3
            /\ subtlv_len = last.budget - (last.len + 3))
    /\ (nSub >= 1 /\ pc # "subsub" => tlv_data = subStart + subtlv.len + 3)

\* A SID Information sub-TLV was left at its declared end although its
\* sub-sub-TLV walk had stopped somewhere else
InnerWalkEndedElsewhere ==
    /\ pc = "sub"
    /\ WholeBuffer
    /\ subtlv.type = 1
    /\ last.level = "subsub"
    /\ sub_data # tlv_data
    /\ tlv_data = subStart + subtlv.len + 3

====
